---- MODULE Spec2Model ----
(***************************************************************************)
(* Project Lifecycle & Log Streaming subsystem of the build server.        *)
(*                                                                         *)
(* build-server/project-manager.ts : class ProjectManager (port allocator, *)
(*   dev-server start/stop, child-process close handler, log fan-out hub)  *)
(* build-server/index.ts           : WebSocket session manager             *)
(*                                                                         *)
(* The server runs on one event loop: every action below is one run of a   *)
(* handler from its entry (or from the continuation of an await) to its    *)
(* next await or return.                                                   *)
(***************************************************************************)
EXTENDS Integers, Sequences, FiniteSets, TLC

(***************************************************************************)
(* Bounds of the model.                                                    *)
(***************************************************************************)
NumProjects == 2      \* projects known to the Registry
NumPorts == 2         \* size of the managed port range (99 in the source)
MaxSpawns == 3        \* dev-server child processes spawned in one run
MaxStops == 2         \* stopDevServer calls that find a running dev server
NumConns == 2         \* WebSocket connections accepted in one run
MaxCallbacks == 3     \* listener closures created in one run
NumListeners == 2     \* listeners of direct callers of the hub (hub runs)
MaxLogs == 1          \* records published through the hub's own publish
MaxAttempts == 6      \* largest value reconnectAttempts takes
MaxPolls == 2         \* status polls of one project without a response
MaxArrived == 540     \* log records the client gets in one run
NumByteValues == 2    \* values a random byte of generateId takes
MaxNameLen == 2       \* length of a project name
MaxCreated == 1       \* projects created in one run
MaxRestarts == 1      \* restarts of the build server in one run
MaxChunks == 2        \* 'data' events of one install process
MaxPathLen == 3       \* segments of the filePath of a writeFile request
MaxWrites == 1        \* writeFile calls in one run
MaxLineLen == 4       \* characters of a raw line of process output
MaxStreamLen == 3     \* bytes a process writes to one stream
MaxTimers == 4        \* setTimeout calls of the connection effect

(***************************************************************************)
(* Program constants and the values standing for "absent".                 *)
(***************************************************************************)
PORT_RANGE_START == 3002
PORT_RANGE_END == PORT_RANGE_START + NumPorts - 1
MAX_LOGS == 500
baseDelay == 1000
maxReconnectDelay == 10000
initialConnectDelay == 500
ID_BYTES == 8
ID_PREFIX == 6
SWEEP_SPAN == 10
MANAGED_RANGE_END == 3100
Ports == PORT_RANGE_START..PORT_RANGE_END

NoPort == 0           \* Map.get(...) === undefined for ports
NoChild == 0          \* Map.get(...) === undefined for processes
NoCb == 0             \* callback: null
NoConn == 0           \* a listener that belongs to no connection
EmptyId == 0          \* a falsy projectId ("" / undefined / null) in a request
NoTimer == 0          \* no setTimeout pending
NullCode == -1        \* exit code null: the process was ended by a signal
SpawnErrorCode == -2  \* the negative code of a process that could not be spawned
SweepDone == 0        \* the loop of cleanupOrphanedProcesses has ended

ProjectIds == 1..NumProjects
UnknownId == NumProjects + 1           \* a well-formed id of no project
RequestIds == ProjectIds \cup {UnknownId}       \* ids an HTTP request can carry
HubKeys == {EmptyId} \cup ProjectIds            \* ids a subscribe message can carry
ChildIds == 1..MaxSpawns
StopSlots == 1..MaxStops
Conns == 1..NumConns
Callbacks == 1..MaxCallbacks
Listeners == {cb \in Callbacks : cb <= NumListeners}
Levels == {"info", "warn", "error", "success"}

VARIABLES
  projects,          \* ProjectManager.projects (the ids of the map)
  processes,         \* ProjectManager.processes : projectId -> ChildProcess
  ports,             \* ProjectManager.ports     : projectId -> port
  usedPorts,         \* ProjectManager.usedPorts
  logSubscriptions,  \* ProjectManager.logSubscriptions : projectId -> Set<callback>
  child,             \* the ChildProcess objects spawned by startDevServer
  startTasks,        \* startDevServer calls waiting in the settle delay
  stopTasks,         \* stopDevServer calls suspended at an await
  wsState,           \* per connection: none / open / closing / closed
  wsClients,         \* index.ts wsClients : ws -> {projectId, callback}
  cbOwner,           \* the ws each created callback closes over
  sent,              \* messages sent on each connection, in order
  delivered,         \* records each listener was invoked with, in order
  now,               \* the clock log() reads for the record's timestamp
  clientWs,          \* useProjectManager: readyState of wsRef.current (none before the first)
  reconnectAttempts, \* useProjectManager: reconnectAttempts of the connection effect
  connDelay,         \* the delay computed by the connect() call that made the socket
  reconnectTimer,    \* the pending setTimeout(connect, ...) of the client, in ms
  isCleanup,         \* useProjectManager: isCleanup of the connection effect
  activeProject,     \* useProjectManager: activeProject state ({id, status} or none)
  clientSubscribes,  \* project ids of the subscribe requests sent on the current socket
  pollInterval,      \* the project id the status-poll interval is armed for
  pollsInFlight,     \* status requests of the poll that have no response yet
  fetchesInFlight,   \* fetchProjects calls with no response yet (their activeProject id)
  logs,              \* useProjectManager: logs state
  arrived,           \* number of log records the client has got so far
  disk,              \* names of the project directories under PROJECTS_DIR
  issued,            \* ids createProject has returned
  restarts,          \* number of times the build server was restarted
  install,           \* the installDependencies call: its closure and its result
  fs,                \* the directories and files under PROJECTS_DIR
  writeResult,       \* what the last writeFile call returned or threw
  writes,            \* number of writeFile calls made
  strays,            \* ports of the managed range a process of a previous run listens on
  sweep,             \* cleanupOrphanedProcesses: the port its loop is at
  cleanup,           \* the cleanup() call: its position and the keys it iterates over
  line,              \* a line of process output and what cleanLogLine made of it
  pollOutcome,       \* how the last status request of the poll ended
  storage,           \* sessionStorage and the last safeSessionStorage.setItem call
  stdio,             \* one stream of a spawned process and its 'data' handler
  link,              \* the connection effect of the hook: its sockets and timers
  createResult       \* what the last createProject call returned or threw

lifecycleVars == <<projects, processes, ports, usedPorts, child, startTasks, stopTasks>>
sessionVars == <<wsState, wsClients, cbOwner>>
hubOut == <<sent, delivered>>
clientVars == <<clientWs, reconnectAttempts, connDelay, reconnectTimer, isCleanup,
                activeProject, clientSubscribes, pollInterval, pollsInFlight, fetchesInFlight>>
bufferVars == <<logs, arrived>>
recoveryVars == <<disk, issued, restarts>>
filesVars == <<fs, writeResult, writes>>
startupVars == <<strays, sweep>>
lateVars == <<storage, stdio, link, createResult>>
toolVars == <<filesVars, startupVars, cleanup, line, pollOutcome, lateVars>>
restVars == <<clientVars, bufferVars, recoveryVars, install, toolVars>>
serverVars == <<projects, processes, ports, usedPorts, logSubscriptions, child, startTasks,
                stopTasks, wsState, wsClients, cbOwner, sent, delivered, now>>
vars == <<projects, processes, ports, usedPorts, logSubscriptions, child, startTasks,
          stopTasks, wsState, wsClients, cbOwner, sent, delivered, now, clientWs,
          reconnectAttempts, connDelay, reconnectTimer, isCleanup, activeProject,
          clientSubscribes, pollInterval, pollsInFlight, fetchesInFlight, logs, arrived,
          disk, issued, restarts, install, fs, writeResult, writes, strays, sweep,
          cleanup, line, pollOutcome, storage, stdio, link, createResult>>

(***************************************************************************)
(* Helpers.                                                                *)
(***************************************************************************)
MinOf(S) == CHOOSE x \in S : \A y \in S : x <= y

Repeat(x, n) == [i \in 1..n |-> x]

IdleStop == [pc |-> "idle", projectId |-> EmptyId, child |-> NoChild, port |-> NoPort,
             threw |-> FALSE]

UnspawnedChild == [projectId |-> EmptyId, port |-> NoPort, state |-> "unspawned",
                   killed |-> FALSE]

Spawned == {c \in ChildIds : child[c].state # "unspawned"}

Truthy(id) == id # EmptyId

(***************************************************************************)
(* Port allocator.                                                         *)
(***************************************************************************)
FreePorts == Ports \ usedPorts

\* allocatePort handing out the highest free port
allocatePortHighest ==
  IF FreePorts = {} THEN NoPort ELSE CHOOSE x \in FreePorts : \A y \in FreePorts : y <= x

\* the loop of allocatePort running one port past the end of the range
RECURSIVE ScanPortsPast(_)
ScanPortsPast(port) ==
  IF port > PORT_RANGE_END + 1 THEN NoPort
  ELSE IF port \notin usedPorts THEN port
  ELSE ScanPortsPast(port + 1)

\* the loop of allocatePort from port on: the first port not in usedPorts,
\* or no port when the loop runs off the end of the range (the throw)
RECURSIVE ScanPorts(_)
ScanPorts(port) ==
  IF port > PORT_RANGE_END THEN NoPort
  ELSE IF port \notin usedPorts THEN port
  ELSE ScanPorts(port + 1)

\* allocatePort: the first port of the range, scanning upwards, not in usedPorts
allocatePort == ScanPorts(PORT_RANGE_START)

\* releasePort with the delete left out
releasePortMissing(port) == usedPorts

\* releasePort: usedPorts.delete(port)
releasePort(port) == usedPorts \ {port}

(***************************************************************************)
(* Log fan-out hub.                                                        *)
(***************************************************************************)
\* log() iterating over the listeners of every project
SubscribersOfAll(projectId) == UNION {logSubscriptions[k] : k \in HubKeys}

\* the listeners log() iterates over: logSubscriptions.get(projectId)
Subscribers(projectId) == logSubscriptions[projectId]

\* the callback created by the subscribe handler sends only on an OPEN socket
CallbackSends(cb) == cbOwner[cb] \in Conns /\ wsState[cbOwner[cb]] = "open"

\* one record of log()
LogEntry(projectId, level, message) ==
  [timestamp |-> now, level |-> level, message |-> message, projectId |-> projectId]

\* what the callback of the subscribe handler puts on the wire
LogMessage(rec) == [type |-> "log", data |-> rec]

\* the sends on connection ws caused by publishing recs, in order, to subs
RECURSIVE Wire(_, _, _)
Wire(ws, subs, recs) ==
  IF recs = <<>> THEN <<>>
  ELSE Repeat(LogMessage(Head(recs)),
              Cardinality({cb \in subs : cbOwner[cb] = ws /\ CallbackSends(cb)}))
       \o Wire(ws, subs, Tail(recs))

\* the log() calls of one handler run, all for one project, in order:
\* every subscriber of the project is invoked once per record
LogAll(projectId, recs) ==
  LET subs == Subscribers(projectId)
  IN /\ delivered' = [cb \in Callbacks |->
                        IF cb \in subs THEN delivered[cb] \o recs ELSE delivered[cb]]
     /\ sent' = [ws \in Conns |-> sent[ws] \o Wire(ws, subs, recs)]

\* log(projectId, level, message)
Log(projectId, level, message) ==
  LogAll(projectId, <<LogEntry(projectId, level, message)>>)

\* subscribeToLogs: create the set if absent, add the callback
subscribeToLogs(subs, projectId, cb) ==
  [subs EXCEPT ![projectId] = @ \cup {cb}]

\* unsubscribeFromLogs with the delete left out
unsubscribeKeeps(subs, projectId, cb) == subs

\* unsubscribeFromLogs: delete the callback from the set if the set exists
unsubscribeFromLogs(subs, projectId, cb) ==
  [subs EXCEPT ![projectId] = @ \ {cb}]

(***************************************************************************)
(* Initial state: the manager after init(), with NumProjects projects      *)
(* loaded by the recovery scan, no dev server, no connection.              *)
(***************************************************************************)
InitServer(loaded) ==
  /\ projects = loaded
  /\ processes = [p \in RequestIds |-> NoChild]
  /\ ports = [p \in RequestIds |-> NoPort]
  /\ usedPorts = {}
  /\ logSubscriptions = [k \in HubKeys |-> {}]
  /\ child = [c \in ChildIds |-> UnspawnedChild]
  /\ startTasks = {}
  /\ stopTasks = [i \in StopSlots |-> IdleStop]
  /\ wsState = [ws \in Conns |-> "none"]
  /\ wsClients = [ws \in Conns |-> [projectId |-> EmptyId, callback |-> NoCb]]
  /\ cbOwner = [cb \in Callbacks |-> NoConn]
  /\ sent = [ws \in Conns |-> <<>>]
  /\ delivered = [cb \in Callbacks |-> <<>>]
  /\ now = 0
  /\ install = [pc |-> "idle", projectId |-> EmptyId, output |-> <<>>, records |-> <<>>,
                code |-> 0, result |-> [kind |-> "pending"]]

(***************************************************************************)
(* Child processes.  kill(signal) on a ChildProcess: the signal is sent    *)
(* (killed becomes true), or sending raises an error, or the process has   *)
(* already exited and kill returns false.                                  *)
(***************************************************************************)
KillOutcomes(c) ==
  IF child[c].state = "running" THEN {"sent", "throws"} ELSE {"false"}

Kill(c, signal, outcome) ==
  IF outcome = "sent"
  THEN [child EXCEPT ![c].killed = TRUE,
                     ![c].state = IF signal = "SIGKILL" THEN "exited" ELSE @]
  ELSE child

\* the children of this run that are alive and bound to the port
RunningOn(port) == {c \in ChildIds : child[c].state = "running" /\ child[c].port = port}

\* the dev-server process ends (crash, or its reaction to a signal)
ChildExit(c) ==
  /\ child[c].state = "running"
  /\ child' = [child EXCEPT ![c].state = "exited"]
  /\ UNCHANGED <<restVars, now, projects, processes, ports, usedPorts, logSubscriptions, startTasks,
                 stopTasks, sessionVars, hubOut>>

\* childProcess.on('close'): log, processes.delete, releasePort(port), ports.delete
\* (port and projectId are the values the handler closed over at spawn time;
\* nothing reads them once the handler has run)
ChildClose(c) ==
  /\ child[c].state = "exited"
  /\ child' = [child EXCEPT ![c].state = "closed", ![c].projectId = EmptyId,
                            ![c].port = NoPort]
  /\ Log(child[c].projectId, "info", "Dev server stopped with code")
  /\ processes' = [processes EXCEPT ![child[c].projectId] = NoChild]
  /\ usedPorts' = releasePort(child[c].port)
  /\ ports' = [ports EXCEPT ![child[c].projectId] = NoPort]
  /\ UNCHANGED <<restVars, now, projects, logSubscriptions, startTasks, stopTasks, sessionVars>>

(***************************************************************************)
(* startDevServer.                                                         *)
(***************************************************************************)
\* what a startDevServer call does at its entry: throw NotFound, return the
\* existing binding, throw from allocatePort, or go on to spawn on the lowest free port
StartDevServerEntry(p) ==
  IF p \notin projects THEN [kind |-> "NotFound", port |-> NoPort]
  ELSE IF processes[p] # NoChild THEN [kind |-> "existing", port |-> ports[p]]
  ELSE IF allocatePort = NoPort THEN [kind |-> "PortExhausted", port |-> NoPort]
  ELSE [kind |-> "spawn", port |-> allocatePort]

\* what spawn(command, args, {shell: true, ...}) does: it starts the dev
\* server, or it starts a shell that cannot run the command and exits at once
SpawnOutcomes == {"spawned", "failed"}

\* entry of startDevServer up to the settle delay (or to an early return / throw)
StartDevServerCall(p) ==
  LET entry == StartDevServerEntry(p)
  IN IF entry.kind # "spawn" THEN
       UNCHANGED vars
     ELSE
       /\ Cardinality(Spawned) < MaxSpawns
       /\ \E outcome \in SpawnOutcomes :
            LET port == entry.port
                c == Cardinality(Spawned) + 1
            IN /\ usedPorts' = usedPorts \cup {port}
               /\ ports' = [ports EXCEPT ![p] = port]
               /\ Log(p, "info", "Starting dev server on port")
               /\ child' = [child EXCEPT ![c] =
                              [projectId |-> p, port |-> port, killed |-> FALSE,
                               state |-> IF outcome = "spawned" THEN "running"
                                         ELSE "exited"]]
               /\ processes' = [processes EXCEPT ![p] = c]
               /\ startTasks' = startTasks \cup
                    {[projectId |-> p, port |-> port, child |-> c,
                      spawnFailed |-> (outcome = "failed")]}
       /\ UNCHANGED <<restVars, now, projects, logSubscriptions, stopTasks, sessionVars>>

\* after the settle delay: log 'Dev server running', return {port, url}
StartDevServerSettled(t) ==
  /\ t \in startTasks
  /\ startTasks' = startTasks \ {t}
  /\ Log(t.projectId, "success", "Dev server running at")
  /\ UNCHANGED <<restVars, now, projects, processes, ports, usedPorts, logSubscriptions, child,
                 stopTasks, sessionVars>>

(***************************************************************************)
(* getProjectStatus.                                                       *)
(***************************************************************************)
\* `http://localhost:${port}`
Url(port) == <<"http://localhost:", port>>

\* url: undefined
NoUrl == <<>>

\* getProjectStatus with status left at the value it is declared with
getProjectStatusReady(p) ==
  [running |-> processes[p] # NoChild, port |-> ports[p], status |-> "ready",
   url |-> IF ports[p] # NoPort THEN Url(ports[p]) ELSE NoUrl]

\* what getProjectStatus(p) reports for a project of the registry: running,
\* port, status and url are fixed before its first await
getProjectStatus(p) ==
  LET running == processes[p] # NoChild
      port == ports[p]
  IN [running |-> running,
      port |-> port,
      status |-> IF running /\ port # NoPort THEN "ready" ELSE "creating",
      url |-> IF port # NoPort THEN Url(port) ELSE NoUrl]

(***************************************************************************)
(* stopDevServer.                                                          *)
(***************************************************************************)
IdleSlots == {i \in StopSlots : stopTasks[i].pc = "idle"}

\* the record a finished call leaves behind
DoneStop(t, threw) == [t EXCEPT !.pc = "done", !.child = NoChild, !.threw = threw]

\* stopDevServer of a project with a handle, up to its first await: log, SIGTERM
StopDevServerSteps(p) ==
  /\ IdleSlots # {}
  /\ \E outcome \in KillOutcomes(processes[p]) :
       LET c == processes[p]
           port == ports[p]
           i == MinOf(IdleSlots)
           threw == (outcome = "throws")
           t == [pc |-> IF threw THEN "lsof" ELSE "grace", projectId |-> p,
                 child |-> c, port |-> port, threw |-> threw]
       IN /\ child' = Kill(c, "SIGTERM", outcome)
          /\ IF threw /\ port = NoPort
             THEN \* catch, no port: runs to the end without an await
                  /\ stopTasks' = [stopTasks EXCEPT ![i] = DoneStop(t, threw)]
                  /\ processes' = [processes EXCEPT ![p] = NoChild]
                  /\ LogAll(p, <<LogEntry(p, "info", "Stopping dev server..."),
                                 LogEntry(p, "success", "Dev server stopped")>>)
             ELSE /\ stopTasks' = [stopTasks EXCEPT ![i] = t]
                  /\ Log(p, "info", "Stopping dev server...")
                  /\ UNCHANGED processes
  /\ UNCHANGED <<now, projects, ports, usedPorts, logSubscriptions, startTasks, sessionVars>>

\* entry of stopDevServer: early return, or log, SIGTERM, and the first await
StopDevServerCall(p) ==
  IF processes[p] = NoChild THEN
    /\ UNCHANGED vars
  ELSE
    /\ StopDevServerSteps(p)
    /\ UNCHANGED restVars

\* after the 500 ms grace period: SIGKILL if !childProcess.killed, then the port part
StopAfterGrace(i) ==
  /\ stopTasks[i].pc = "grace"
  /\ LET t == stopTasks[i]
     IN \E outcome \in (IF child[t.child].killed THEN {"skipped"} ELSE KillOutcomes(t.child)) :
          LET threw == t.threw \/ outcome = "throws"
          IN /\ child' = IF outcome = "skipped" THEN child ELSE Kill(t.child, "SIGKILL", outcome)
             /\ IF t.port # NoPort
                THEN /\ stopTasks' = [stopTasks EXCEPT ![i].pc = "lsof", ![i].threw = threw]
                     /\ UNCHANGED <<processes, hubOut>>
                ELSE /\ stopTasks' = [stopTasks EXCEPT ![i] = DoneStop(t, threw)]
                     /\ processes' = [processes EXCEPT ![t.projectId] = NoChild]
                     /\ Log(t.projectId, "success", "Dev server stopped")
  /\ UNCHANGED <<restVars, now, projects, ports, usedPorts, logSubscriptions, startTasks, sessionVars>>

\* the port part: `lsof -ti:<port> | xargs kill -9` ends the processes K of this run
\* that listen on the port (none when nothing listens there yet, or when the
\* command fails); then releasePort(port), ports.delete, processes.delete, log, return
StopFinish(i) ==
  /\ stopTasks[i].pc = "lsof"
  /\ LET t == stopTasks[i]
     IN /\ \E K \in SUBSET RunningOn(t.port) :
             child' = [c \in ChildIds |->
                         IF c \in K THEN [child[c] EXCEPT !.state = "exited"] ELSE child[c]]
        /\ usedPorts' = releasePort(t.port)
        /\ ports' = [ports EXCEPT ![t.projectId] = NoPort]
        /\ processes' = [processes EXCEPT ![t.projectId] = NoChild]
        /\ Log(t.projectId, "success", "Dev server stopped")
        /\ stopTasks' = [stopTasks EXCEPT ![i] = DoneStop(t, t.threw)]
  /\ UNCHANGED <<restVars, now, projects, logSubscriptions, startTasks, sessionVars>>

(***************************************************************************)
(* Session manager (index.ts): one WebSocket connection per ws.            *)
(***************************************************************************)
\* a message that leaves out the project id
MessageNoId(type, projectId) == [type |-> type, projectId |-> EmptyId]

\* a message of the server that is not a log record: {type, projectId}
Message(type, projectId) == [type |-> type, projectId |-> projectId]

NoClient == [projectId |-> EmptyId, callback |-> NoCb]

\* the callbacks the subscribe handler has created so far
Created == {cb \in Callbacks : cbOwner[cb] # NoConn}

\* wss.on("connection"): register the client, send the welcome message
WsConnection(ws) ==
  /\ wsState[ws] = "none"
  /\ wsState' = [wsState EXCEPT ![ws] = "open"]
  /\ wsClients' = [wsClients EXCEPT ![ws] = NoClient]
  /\ sent' = [sent EXCEPT ![ws] = Append(@, Message("connected", EmptyId))]
  /\ UNCHANGED <<restVars, now, lifecycleVars, logSubscriptions, cbOwner, delivered>>

\* the unsubscribe both handlers do: only when callback and projectId are truthy
UnsubscribePrevious(clientData) ==
  IF clientData.callback # NoCb /\ Truthy(clientData.projectId)
  THEN unsubscribeFromLogs(logSubscriptions, clientData.projectId, clientData.callback)
  ELSE logSubscriptions

\* ws.on("message") with {type: "subscribe", projectId}
WsSubscribe(ws, projectId) ==
  /\ wsState[ws] = "open"
  /\ Cardinality(Created) < MaxCallbacks
  /\ LET cb == Cardinality(Created) + 1
     IN /\ cbOwner' = [cbOwner EXCEPT ![cb] = ws]
        /\ logSubscriptions' =
             subscribeToLogs(UnsubscribePrevious(wsClients[ws]), projectId, cb)
        /\ wsClients' = [wsClients EXCEPT ![ws] = [projectId |-> projectId, callback |-> cb]]
        /\ sent' = [sent EXCEPT ![ws] = Append(@, Message("subscribed", projectId))]
  /\ UNCHANGED <<restVars, now, lifecycleVars, wsState, delivered>>

\* the socket leaves readyState OPEN (the peer went away); 'close' is not yet emitted
WsClosing(ws) ==
  /\ wsState[ws] = "open"
  /\ wsState' = [wsState EXCEPT ![ws] = "closing"]
  /\ UNCHANGED <<restVars, now, lifecycleVars, logSubscriptions, wsClients, cbOwner, hubOut>>

\* ws.on("close"): unsubscribe, wsClients.delete(ws)
WsClose(ws) ==
  /\ wsState[ws] = "closing"
  /\ wsState' = [wsState EXCEPT ![ws] = "closed"]
  /\ logSubscriptions' = UnsubscribePrevious(wsClients[ws])
  /\ wsClients' = [wsClients EXCEPT ![ws] = NoClient]
  /\ UNCHANGED <<restVars, now, lifecycleVars, cbOwner, hubOut>>

(***************************************************************************)
(* The hub's operations called on their own.                               *)
(***************************************************************************)
\* publish: a log() call of any operation of the manager, for a project id
\* (time passes between two such calls)
Publish(projectId, level) ==
  /\ now < MaxLogs
  /\ now' = now + 1
  /\ Log(projectId, level, "line")
  /\ UNCHANGED <<restVars, lifecycleVars, logSubscriptions, sessionVars>>

\* subscribeToLogs(projectId, listener) for a listener of any caller
HubSubscribe(projectId, cb) ==
  /\ logSubscriptions' = subscribeToLogs(logSubscriptions, projectId, cb)
  /\ UNCHANGED <<restVars, now, lifecycleVars, sessionVars, hubOut>>

\* unsubscribeFromLogs(projectId, listener), subscribed or not
HubUnsubscribe(projectId, cb) ==
  /\ logSubscriptions' = unsubscribeFromLogs(logSubscriptions, projectId, cb)
  /\ UNCHANGED <<restVars, now, lifecycleVars, sessionVars, hubOut>>

(***************************************************************************)
(* Client synchronizer (src/hooks/useProjectManager.ts).  A state update   *)
(* of activeProject is followed by the effects that depend on it; each     *)
(* action below is one callback of the hook together with those effects.   *)
(***************************************************************************)
\* activeProject === undefined
NoProject == [id |-> EmptyId, status |-> ""]

\* the status values a project object of the client carries
ClientStatuses == {"creating", "ready", "error"}

\* the project objects the UI, the status poll and fetchProjects can supply
ClientProjects == [id : ProjectIds, status : ClientStatuses]

\* what a status or list response says about a project: its status on the
\* server (getProjectStatus yields creating or ready), or "none" when the
\* request failed or the project is not there
Answers == {"creating", "ready", "none"}

Min(a, b) == IF a <= b THEN a ELSE b

\* the delay connect() computes:
\* Math.min(1000 * Math.pow(2, reconnectAttempts), maxReconnectDelay)
DelayUncapped(attempts) == baseDelay * 2^attempts

Delay(attempts) == Min(baseDelay * 2^attempts, maxReconnectDelay)

\* the polling effect with the test of the status left out
PollAlways(project) == project.id

\* the polling effect: the id the interval is armed for, if any
PollEffect(project) ==
  IF project = NoProject \/ project.status \in {"ready", "error"}
  THEN EmptyId
  ELSE project.id

\* the subscribe effect: sends only if a project is active and the socket is OPEN
SubscribeEffect(project) ==
  IF project # NoProject /\ clientWs = "open"
  THEN clientSubscribes \cup {project.id}
  ELSE clientSubscribes

\* setActiveProject(project) followed by the effects depending on activeProject:
\* persist, subscribe, polling, and fetchProjects (whose identity depends on it)
SetActiveProject(project, fetches) ==
  /\ activeProject' = project
  /\ clientSubscribes' = SubscribeEffect(project)
  /\ pollInterval' = PollEffect(project)
  /\ fetchesInFlight' = fetches \cup {project.id}

\* the state after the first render; saved is what sessionStorage held
InitClient(saved) ==
  /\ clientWs = "none"
  /\ reconnectAttempts = 0
  /\ connDelay = NoTimer
  /\ reconnectTimer = initialConnectDelay
  /\ isCleanup = FALSE
  /\ activeProject = saved
  /\ clientSubscribes = {}
  /\ pollInterval = PollEffect(saved)
  /\ pollsInFlight = [p \in ProjectIds |-> 0]
  /\ fetchesInFlight = {saved.id}

\* setActive(project), called by the UI
ClientSetActive(project) ==
  /\ ~isCleanup
  /\ project # NoProject \/ activeProject # NoProject
  /\ SetActiveProject(project, fetchesInFlight)
  /\ UNCHANGED <<serverVars, clientWs, reconnectAttempts, connDelay, reconnectTimer,
                 isCleanup, pollsInFlight, bufferVars, recoveryVars, install, toolVars>>

\* the reconnect timer fires: connect()
ClientConnect ==
  /\ reconnectTimer # NoTimer
  /\ ~isCleanup
  /\ \E created \in BOOLEAN :
       LET delay == Delay(reconnectAttempts)
       IN IF created
          THEN /\ clientWs' = "connecting"
               /\ connDelay' = delay
               /\ reconnectTimer' = NoTimer
               /\ clientSubscribes' = {}
               /\ UNCHANGED reconnectAttempts
          ELSE /\ reconnectAttempts < MaxAttempts
               /\ reconnectAttempts' = reconnectAttempts + 1
               /\ reconnectTimer' = delay
               /\ UNCHANGED <<clientWs, connDelay, clientSubscribes>>
  /\ UNCHANGED <<serverVars, isCleanup, activeProject, pollInterval, pollsInFlight,
                 fetchesInFlight, bufferVars, recoveryVars, install, toolVars>>

\* ws.onopen
ClientOpen ==
  /\ clientWs = "connecting"
  /\ clientWs' = "open"
  /\ reconnectAttempts' = 0
  /\ UNCHANGED <<serverVars, connDelay, reconnectTimer, isCleanup, activeProject,
                 clientSubscribes, pollInterval, pollsInFlight, fetchesInFlight,
                 bufferVars, recoveryVars, install, toolVars>>

\* ws.onclose, after a failed attempt, a lost connection or ws.close()
ClientClose ==
  /\ clientWs \in {"connecting", "open", "closing"}
  /\ clientWs' = "closed"
  /\ IF isCleanup
     THEN UNCHANGED <<reconnectAttempts, reconnectTimer>>
     ELSE /\ reconnectAttempts < MaxAttempts
          /\ reconnectAttempts' = reconnectAttempts + 1
          /\ reconnectTimer' = connDelay
  /\ UNCHANGED <<serverVars, connDelay, isCleanup, activeProject, clientSubscribes,
                 pollInterval, pollsInFlight, fetchesInFlight, bufferVars, recoveryVars,
                 install, toolVars>>

\* the cleanups of the effects at unmount
ClientUnmount ==
  /\ ~isCleanup
  /\ isCleanup' = TRUE
  /\ reconnectTimer' = NoTimer
  /\ clientWs' = IF clientWs \in {"connecting", "open"} THEN "closing" ELSE clientWs
  /\ pollInterval' = EmptyId
  /\ UNCHANGED <<serverVars, reconnectAttempts, connDelay, activeProject, clientSubscribes,
                 pollsInFlight, fetchesInFlight, bufferVars, recoveryVars, install, toolVars>>

\* the interval of the polling effect fires: getProjectStatus(activeProject.id)
PollTick ==
  /\ pollInterval # EmptyId
  /\ pollsInFlight[pollInterval] < MaxPolls
  /\ pollsInFlight' = [pollsInFlight EXCEPT ![pollInterval] = @ + 1]
  /\ UNCHANGED <<serverVars, clientWs, reconnectAttempts, connDelay, reconnectTimer,
                 isCleanup, activeProject, clientSubscribes, pollInterval, fetchesInFlight,
                 bufferVars, recoveryVars, install, toolVars>>

\* the .then of a poll, the client side of it
PollResponseSteps(id, answer) ==
  /\ pollsInFlight[id] > 0
  /\ pollsInFlight' = [pollsInFlight EXCEPT ![id] = @ - 1]
  /\ IF isCleanup
     THEN UNCHANGED <<activeProject, clientSubscribes, pollInterval, fetchesInFlight>>
     ELSE SetActiveProject(IF answer = "none" THEN NoProject
                           ELSE [id |-> id, status |-> answer], fetchesInFlight)
  /\ UNCHANGED <<serverVars, clientWs, reconnectAttempts, connDelay, reconnectTimer,
                 isCleanup, bufferVars, recoveryVars, install>>

\* the .then of a poll: the status object, or null when the request failed
PollResponse(id, answer) ==
  /\ PollResponseSteps(id, answer)
  /\ UNCHANGED toolVars

\* how a status request ends: 200 with the project's status, 404 (the server
\* reports not found), 500 (the server failed), or fetch rejecting (no network)
HttpOutcomes == {"creating", "ready", "404", "500", "network"}

\* getProjectStatus of the hook: the body of an ok response, null otherwise
fetchProjectStatus(outcome) ==
  IF outcome \in {"creating", "ready"} THEN outcome ELSE "none"

\* a status request of the poll ends and its .then runs
PollSettles(id, outcome) ==
  /\ PollResponseSteps(id, fetchProjectStatus(outcome))
  /\ pollOutcome' = outcome
  /\ UNCHANGED <<filesVars, startupVars, cleanup, line, lateVars>>

\* the response of fetchProjects; id is the activeProject of the call's closure
FetchResponse(id, answer) ==
  /\ id \in fetchesInFlight
  /\ IF ~isCleanup /\ id # EmptyId /\ answer # "none"
     THEN SetActiveProject([id |-> id, status |-> answer], fetchesInFlight \ {id})
     ELSE /\ fetchesInFlight' = fetchesInFlight \ {id}
          /\ UNCHANGED <<activeProject, clientSubscribes, pollInterval>>
  /\ UNCHANGED <<serverVars, clientWs, reconnectAttempts, connDelay, reconnectTimer,
                 isCleanup, pollsInFlight, bufferVars, recoveryVars, install, toolVars>>

\* updated.slice(-MAX_LOGS) with the slice taken from the front
SliceFirst(s) == IF Len(s) > MAX_LOGS THEN SubSeq(s, 1, MAX_LOGS) ELSE s

\* s.slice(-MAX_LOGS)
SliceLast(s) == IF Len(s) > MAX_LOGS THEN SubSeq(s, Len(s) - MAX_LOGS + 1, Len(s)) ELSE s

\* the log records 1..n in the order of arrival
Records(n) == [i \in 1..n |-> i]

\* the logs state after the first render, n records being saved in sessionStorage
InitBuffer(n) ==
  /\ logs = SliceLast(Records(n))
  /\ arrived = n

\* ws.onmessage, the state update of it
ClientMessageSteps(type) ==
  /\ clientWs = "open"
  /\ arrived < MaxArrived
  /\ IF type = "log"
     THEN /\ arrived' = arrived + 1
          /\ logs' = SliceLast(Append(logs, arrived + 1))
     ELSE UNCHANGED <<logs, arrived>>
  /\ UNCHANGED <<serverVars, clientVars, recoveryVars, install>>

\* ws.onmessage: a log message is appended, any other type is ignored
ClientMessage(type) ==
  /\ ClientMessageSteps(type)
  /\ UNCHANGED toolVars

(***************************************************************************)
(* safeSessionStorage.  A stored value is <<n, last>> for an array of n    *)
(* records of which the newest is record last; <<>> is no value.           *)
(***************************************************************************)
StorageKeys == {"projects", "activeProject", "logs"}

\* what sessionStorage.setItem does: it stores, or it throws for the quota
StorageOutcomes == {"ok", "QuotaExceededError"}

\* sessionStorage.clear() in the place of removeItem
removeItemAll(items, key) == [k \in StorageKeys |-> <<>>]

\* sessionStorage.removeItem(key)
removeItem(items, key) == [items EXCEPT ![key] = <<>>]

\* safeSessionStorage.setItem(key, value), first and second being what the
\* calls of sessionStorage.setItem do: the items afterwards and the number
\* of sessionStorage.setItem calls made
safeSetItem(items, key, value, first, second) ==
  IF first = "ok" THEN
    [items |-> [items EXCEPT ![key] = value], calls |-> 1, first |-> first]
  ELSE IF first = "QuotaExceededError" THEN
    LET cleared == removeItem(items, "logs")
    IN [items |-> IF second = "ok" THEN [cleared EXCEPT ![key] = value] ELSE cleared,
        calls |-> 2, first |-> first]
  ELSE
    \* any other error is caught and dropped
    [items |-> items, calls |-> 1, first |-> first]

\* sessionStorage after the effects of the first render
InitStorage ==
  storage = [items |-> [k \in StorageKeys |->
                          IF k = "logs" THEN <<Len(logs), arrived>>
                          ELSE IF k = "projects" THEN <<0, 0>> ELSE <<>>],
             calls |-> 0, first |-> "ok"]

\* ws.onmessage followed by the effect that persists logs when they changed
ClientMessageSaved(type, first, second) ==
  /\ ClientMessageSteps(type)
  /\ first = "ok" => second = "ok"
  /\ storage' = IF type = "log"
                THEN safeSetItem(storage.items, "logs", <<Len(logs'), arrived'>>,
                                 first, second)
                ELSE storage
  /\ UNCHANGED <<filesVars, startupVars, cleanup, line, pollOutcome, stdio, link,
                 createResult>>

(***************************************************************************)
(* Registry: createProject and the recovery scan of a restarted server.    *)
(***************************************************************************)
HexDigits == <<"0", "1", "2", "3", "4", "5", "6", "7", "8", "9", "a", "b", "c", "d", "e", "f">>

\* [a-f0-9]
HexChars == {HexDigits[i] : i \in 1..16}

\* the values a random byte takes in the model
ByteValues == {(171 * i) % 256 : i \in 1..NumByteValues}

\* Buffer.toString('hex')
RECURSIVE ToHex(_)
ToHex(bytes) ==
  IF bytes = <<>> THEN <<>>
  ELSE <<HexDigits[(Head(bytes) \div 16) + 1], HexDigits[(Head(bytes) % 16) + 1]>>
       \o ToHex(Tail(bytes))

\* generateId(): randomBytes(8).toString('hex')
generateId == {ToHex(bytes) : bytes \in [1..ID_BYTES -> ByteValues]}

\* the characters of the names createProject is called with
NameChars == {"A", "x", "-", " "}

\* the names createProject is called with
Names == UNION {[1..n -> NameChars] : n \in 1..MaxNameLen}

\* one character of name.toLowerCase().replace(/[^a-z0-9-]/g, '-')
SanitizeChar(ch) == IF ch = "A" THEN "a" ELSE IF ch = " " THEN "-" ELSE ch

sanitizedName(name) == [i \in 1..Len(name) |-> SanitizeChar(name[i])]

\* id.slice(0, 6)
IdPrefix(id) == SubSeq(id, 1, Min(ID_PREFIX, Len(id)))

\* the directory name of createProject: `${sanitizedName}-${id.slice(0, 6)}`
DirName(name, id) == sanitizedName(name) \o <<"-">> \o IdPrefix(id)

\* entry.name.match(/-([a-f0-9]+)$/): the group of the leftmost match, or <<>>
MatchSuffix(dir) ==
  LET starts == {i \in 1..(Len(dir) - 1) :
                   /\ dir[i] = "-"
                   /\ \A j \in (i + 1)..Len(dir) : dir[j] \in HexChars}
  IN IF starts = {} THEN <<>> ELSE SubSeq(dir, MinOf(starts) + 1, Len(dir))

\* the registry holds nothing and no directory exists
InitRecovery ==
  /\ disk = {}
  /\ issued = {}
  /\ restarts = 0

\* createProject: a fresh id, the directory, the registry entry.  The two
\* records it publishes are for an id nobody has subscribed to.
CreateProject(name, id) ==
  /\ Cardinality(issued) < MaxCreated
  /\ id \notin issued
  /\ disk' = disk \cup {DirName(name, id)}
  /\ projects' = projects \cup {id}
  /\ issued' = issued \cup {id}
  /\ UNCHANGED <<processes, ports, usedPorts, logSubscriptions, child, startTasks, stopTasks,
                 sessionVars, hubOut, now, clientVars, bufferVars, restarts, install, toolVars>>

\* the frameworks createProject is called with
Frameworks == {"react", "React", "vue", "cobol"}

\* framework.toLowerCase()
toLowerCase(framework) == IF framework = "React" THEN "react" ELSE framework

\* getTemplate: the react template, a throw for the frameworks that are
\* named but have no template yet, null for any other
getTemplate(framework) ==
  IF toLowerCase(framework) = "react" THEN "template"
  ELSE IF toLowerCase(framework) \in {"vue", "svelte", "angular", "laravel"} THEN "throws"
  ELSE "null"

\* createProject has not been called
NoCreate == [kind |-> "none", id |-> <<>>]

\* createProject(name, framework): the id, the directory, the registry
\* entry, then generateProjectFiles, which throws when there is no template
CreateProjectCall(name, id, framework) ==
  /\ createResult = NoCreate
  /\ id \notin issued
  /\ disk' = disk \cup {DirName(name, id)}
  /\ projects' = projects \cup {id}
  /\ IF getTemplate(framework) = "template"
     THEN /\ issued' = issued \cup {id}
          /\ createResult' = [kind |-> "ok", id |-> id]
     ELSE /\ createResult' = [kind |-> "TemplateMissing", id |-> id]
          /\ UNCHANGED issued
  /\ UNCHANGED <<processes, ports, usedPorts, logSubscriptions, child, startTasks, stopTasks,
                 sessionVars, hubOut, now, clientVars, bufferVars, restarts, install,
                 filesVars, startupVars, cleanup, line, pollOutcome, storage, stdio, link>>

\* the server is started again: a new ProjectManager, then loadProjectsFromDisk
Restart ==
  /\ restarts < MaxRestarts
  /\ restarts' = restarts + 1
  /\ LET unmatched == {dir \in disk : MatchSuffix(dir) = <<>>}
     IN \E fresh \in [unmatched -> generateId] :
          projects' = {IF dir \in unmatched THEN fresh[dir] ELSE MatchSuffix(dir) : dir \in disk}
  /\ UNCHANGED <<processes, ports, usedPorts, logSubscriptions, child, startTasks, stopTasks,
                 sessionVars, hubOut, now, clientVars, bufferVars, disk, issued, install, toolVars>>

\* projects.get(projectId) of getProjectStatus and the other operations
Found(projectId) == projectId \in projects

(***************************************************************************)
(* installDependencies: one call, its child process and its promise.       *)
(***************************************************************************)
Pending == [kind |-> "pending"]

NoInstall == [pc |-> "idle", projectId |-> EmptyId, output |-> <<>>, records |-> <<>>,
              code |-> 0, result |-> Pending]

\* the exit codes of the install process; a process ended by a signal has code null
ExitCodes == {0, 1, NullCode}

\* the level of the record the 'close' handler publishes, all exits taken as success
InstallLevelSuccess(code) == "success"

\* the level of the record the 'close' handler publishes
InstallLevel(code) == IF code = 0 THEN "success" ELSE "error"

\* what the 'close' handler settles the promise with
InstallResult(code, output) ==
  IF code = 0
  THEN [kind |-> "resolved", success |-> TRUE, output |-> output]
  ELSE [kind |-> "rejected", message |-> "Installation failed with code", code |-> code]

\* resolve / reject of a promise: only the first one counts
Settle(result, new) == IF result = Pending THEN new ELSE result

\* the handler of POST /api/project/install: what the caller gets
InstallResponse(result) ==
  IF result.kind = "resolved"
  THEN [status |-> 200, body |-> [success |-> result.success, output |-> result.output]]
  ELSE [status |-> 500, body |-> [error |-> result.message]]

\* installDependencies(projectId) up to the spawn of the install process
InstallDependenciesCall(p) ==
  /\ install.pc = "idle"
  /\ IF p \notin projects
     THEN UNCHANGED <<install, hubOut>>
     ELSE /\ install' = [NoInstall EXCEPT !.pc = "running", !.projectId = p,
                                          !.records = <<"info">>]
          /\ Log(p, "info", "Installing dependencies with")
  /\ UNCHANGED <<lifecycleVars, logSubscriptions, sessionVars, now, clientVars, bufferVars,
                 recoveryVars, toolVars>>

\* a 'data' event of stdout or stderr: the chunk is added to output; a line
\* it completes is published, at level info for stdout and at the level
\* detectLogLevel gives for stderr
InstallData(stream, lines, level) ==
  /\ install.pc = "running"
  /\ Len(install.output) < MaxChunks
  /\ stream = "stdout" => level = "info"
  /\ install' = [install EXCEPT !.output = Append(@, stream),
                                !.records = @ \o Repeat(level, lines)]
  /\ LogAll(install.projectId,
            Repeat(LogEntry(install.projectId, level, "line"), lines))
  /\ UNCHANGED <<lifecycleVars, logSubscriptions, sessionVars, now, clientVars, bufferVars,
                 recoveryVars, toolVars>>

\* the 'error' event: the install process could not be spawned
InstallError ==
  /\ install.pc = "running"
  /\ install.output = <<>>
  /\ install' = [install EXCEPT !.pc = "errored",
                                !.records = Append(@, "error"),
                                !.result = Settle(@, [kind |-> "rejected",
                                                      message |-> "spawn error",
                                                      code |-> SpawnErrorCode])]
  /\ Log(install.projectId, "error", "Installation error")
  /\ UNCHANGED <<lifecycleVars, logSubscriptions, sessionVars, now, clientVars, bufferVars,
                 recoveryVars, toolVars>>

\* the 'close' event of the install process
InstallClose(code) ==
  /\ install.pc \in {"running", "errored"}
  /\ install.pc = "errored" <=> code = SpawnErrorCode
  /\ install' = [install EXCEPT !.pc = "done",
                                !.code = code,
                                !.records = Append(@, InstallLevel(code)),
                                !.result = Settle(@, InstallResult(code, install.output))]
  /\ Log(install.projectId, InstallLevel(code), "Installation ended")
  /\ UNCHANGED <<lifecycleVars, logSubscriptions, sessionVars, now, clientVars, bufferVars,
                 recoveryVars, toolVars>>

(***************************************************************************)
(* writeFile.  A path is the sequence of its segments, a segment the       *)
(* sequence of its characters; PathString is the string the code compares. *)
(***************************************************************************)
\* the segment '..'
DotDot == <<".", ".">>

\* PROJECTS_DIR, as seen from the directory the server runs in
PROJECTS_DIR == << <<"projects">> >>

\* package.json, the manifest createProject writes into each project directory
Manifest == <<"package.json">>

\* the id the projects on disk were created with
CreatedId == CHOOSE id \in generateId : TRUE

\* the directory names of the projects: project 1 was created with the name
\* "x"; every further project was created with a name that starts with the
\* directory name of the one before it
RECURSIVE projectDir(_)
projectDir(p) ==
  IF p <= 1 THEN DirName(<<"x">>, CreatedId)
  ELSE DirName(projectDir(p - 1) \o <<"-", "x">>, CreatedId)

\* project.path: join(PROJECTS_DIR, directory name)
projectPath(p) == Append(PROJECTS_DIR, projectDir(p))

\* the segments of the filePath of a request
RelSegments == {DotDot, <<"s">>, <<"f">>} \cup {projectDir(p) : p \in ProjectIds}

\* the relative paths writeFile is called with
RelPaths == UNION {[1..n -> RelSegments] : n \in 1..MaxPathLen}

\* path.resolve(base, rel) / path.join(base, rel): '..' drops the last
\* segment (the root has none to drop), any other segment is added
RECURSIVE resolve(_, _)
resolve(base, rel) ==
  IF rel = <<>> THEN base
  ELSE resolve(IF Head(rel) = DotDot
               THEN SubSeq(base, 1, Len(base) - 1)
               ELSE Append(base, Head(rel)),
               Tail(rel))

RECURSIVE JoinSegments(_)
JoinSegments(path) ==
  IF path = <<>> THEN <<>> ELSE <<"/">> \o Head(path) \o JoinSegments(Tail(path))

\* the string of an absolute path
PathString(path) == IF path = <<>> THEN <<"/">> ELSE JoinSegments(path)

\* fullPath.startsWith(project.path): a comparison of the two strings
startsWith(full, root) ==
  LET s == PathString(full)
      prefix == PathString(root)
  IN Len(s) >= Len(prefix) /\ SubSeq(s, 1, Len(prefix)) = prefix

\* the location is the directory root or lies below it
Inside(full, root) == Len(full) >= Len(root) /\ SubSeq(full, 1, Len(root)) = root

\* a directory and the directories above it: what mkdir(dir, {recursive: true}) makes
Ancestors(dir) == {SubSeq(dir, 1, n) : n \in 1..Len(dir)}

NoWrite == [kind |-> "none", projectId |-> EmptyId, path |-> <<>>]

WriteResult(kind, p, rel) == [kind |-> kind, projectId |-> p, path |-> rel]

\* the projects directory with the directory and the manifest of each project
InitFiles ==
  /\ fs = [dirs |-> {PROJECTS_DIR} \cup {projectPath(p) : p \in ProjectIds},
           files |-> {Append(projectPath(p), Manifest) : p \in ProjectIds}]
  /\ writeResult = NoWrite
  /\ writes = 0

\* writeFile(projectId, filePath, content)
WriteFileCall(p, rel) ==
  /\ writes < MaxWrites
  /\ writes' = writes + 1
  /\ IF p \notin projects THEN
       /\ writeResult' = WriteResult("NotFound", p, rel)
       /\ UNCHANGED <<fs, hubOut>>
     ELSE
       LET fullPath == resolve(projectPath(p), rel)
           dir == resolve(fullPath, <<DotDot>>)
           dirs == fs.dirs \cup Ancestors(dir)
       IN IF ~startsWith(fullPath, projectPath(p)) THEN
            /\ writeResult' = WriteResult("PathEscape", p, rel)
            /\ UNCHANGED <<fs, hubOut>>
          ELSE IF Ancestors(dir) \cap fs.files # {} THEN
            \* mkdir fails: a file is in the way
            /\ writeResult' = WriteResult("IOError", p, rel)
            /\ Log(p, "info", "Writing file")
            /\ UNCHANGED fs
          ELSE IF fullPath \in dirs THEN
            \* the write fails: the path is a directory
            /\ writeResult' = WriteResult("IOError", p, rel)
            /\ Log(p, "info", "Writing file")
            /\ fs' = [fs EXCEPT !.dirs = dirs]
          ELSE
            /\ writeResult' = WriteResult("ok", p, rel)
            /\ LogAll(p, <<LogEntry(p, "info", "Writing file"),
                           LogEntry(p, "success", "File written")>>)
            /\ fs' = [dirs |-> dirs, files |-> fs.files \cup {fullPath}]
  /\ UNCHANGED <<lifecycleVars, logSubscriptions, sessionVars, now, clientVars, bufferVars,
                 recoveryVars, install, startupVars, cleanup, line, pollOutcome, lateVars>>

(***************************************************************************)
(* Startup: init() sweeps the ports for processes of a previous run, then  *)
(* loads the projects from disk.                                           *)
(***************************************************************************)
\* the ports whose listeners the loop of cleanupOrphanedProcesses kills:
\* PORT_RANGE_START .. Math.min(PORT_RANGE_START + 10, PORT_RANGE_END)
SweepEnd == Min(PORT_RANGE_START + SWEEP_SPAN, MANAGED_RANGE_END)

\* the managed range of the source, PORT_RANGE_START..PORT_RANGE_END
ManagedPorts == PORT_RANGE_START..MANAGED_RANGE_END

\* the ports a process of a previous run may still listen on
StrayPorts == {PORT_RANGE_START, PORT_RANGE_START + 1, SweepEnd, SweepEnd + 1,
               MANAGED_RANGE_END}

\* init() has run to its end and found nothing to kill
InitStartup ==
  /\ strays = {}
  /\ sweep = SweepDone

\* one turn of the loop: `lsof -ti:${port} | xargs kill -9`, then port++
SweepPort ==
  /\ sweep # SweepDone
  /\ strays' = strays \ {sweep}
  /\ sweep' = IF sweep < SweepEnd THEN sweep + 1 ELSE SweepDone
  /\ \E K \in SUBSET RunningOn(sweep) :
       child' = [c \in ChildIds |->
                   IF c \in K THEN [child[c] EXCEPT !.state = "exited"] ELSE child[c]]
  /\ UNCHANGED <<projects, processes, ports, usedPorts, logSubscriptions, startTasks,
                 stopTasks, sessionVars, hubOut, now, clientVars, bufferVars, recoveryVars,
                 install, filesVars, cleanup, line, pollOutcome, lateVars>>

\* loadProjectsFromDisk, after the sweep: the projects on disk are registered
LoadProjectsFromDisk ==
  /\ sweep = SweepDone
  /\ projects = {}
  /\ projects' = ProjectIds
  /\ UNCHANGED <<processes, ports, usedPorts, logSubscriptions, child, startTasks, stopTasks,
                 sessionVars, hubOut, now, restVars>>

\* createProject called for a project the registry gets the id p for: the
\* directory is made and the project is registered
CreateProjectRequest(p) ==
  /\ p \notin projects
  /\ projects' = projects \cup {p}
  /\ UNCHANGED <<processes, ports, usedPorts, logSubscriptions, child, startTasks, stopTasks,
                 sessionVars, hubOut, now, restVars>>

(***************************************************************************)
(* startDevServer when spawn() itself throws (the system refuses to make   *)
(* the process): the port is allocated and bound, no handle is registered. *)
(***************************************************************************)
StartDevServerSpawnThrows(p) ==
  /\ StartDevServerEntry(p).kind = "spawn"
  /\ LET port == StartDevServerEntry(p).port
     IN /\ usedPorts' = usedPorts \cup {port}
        /\ ports' = [ports EXCEPT ![p] = port]
        /\ Log(p, "info", "Starting dev server on port")
  /\ UNCHANGED <<restVars, now, projects, processes, logSubscriptions, child, startTasks,
                 stopTasks, sessionVars>>

(***************************************************************************)
(* deleteProject: explicit deletion stops any running process, frees its   *)
(* port and removes the project from the registry.                         *)
(***************************************************************************)
DeleteProject(p) ==
  IF p \notin projects THEN
    UNCHANGED vars
  ELSE
    /\ projects' = projects \ {p}
    /\ child' = [c \in ChildIds |->
                   IF c = processes[p] /\ child[c].state = "running"
                   THEN [child[c] EXCEPT !.state = "exited"]
                   ELSE child[c]]
    /\ usedPorts' = IF ports[p] # NoPort THEN releasePort(ports[p]) ELSE usedPorts
    /\ ports' = [ports EXCEPT ![p] = NoPort]
    /\ processes' = [processes EXCEPT ![p] = NoChild]
    /\ UNCHANGED <<restVars, now, logSubscriptions, startTasks, stopTasks, sessionVars, hubOut>>

(***************************************************************************)
(* cleanup(): stopDevServer for every key of processes, all awaited.  The  *)
(* map over the keys runs each stopDevServer up to its first await before  *)
(* anything else runs; the HTTP server keeps taking requests meanwhile.    *)
(***************************************************************************)
NoCleanup == [pc |-> "idle", keys |-> {}, pending |-> {}]

InitCleanup == cleanup = NoCleanup

\* the projects that have a ProcessHandle: Array.from(this.processes.keys())
ProcessKeys == {p \in RequestIds : processes[p] # NoChild}

\* no stopDevServer call is suspended at an await
NoStopInFlight == \A i \in StopSlots : stopTasks[i].pc \notin {"grace", "lsof"}

\* cleanup() is called: the keys are taken
CleanupCall ==
  /\ cleanup.pc = "idle"
  /\ ProcessKeys # {}
  /\ cleanup' = [pc |-> "looping", keys |-> ProcessKeys, pending |-> ProcessKeys]
  /\ UNCHANGED <<serverVars, clientVars, bufferVars, recoveryVars, install, filesVars,
                 startupVars, line, pollOutcome, lateVars>>

\* one turn of the map: stopDevServer(projectId) up to its first await
CleanupStop(p) ==
  /\ cleanup.pc = "looping"
  /\ p \in cleanup.pending
  /\ StopDevServerSteps(p)
  /\ cleanup' = [cleanup EXCEPT !.pending = @ \ {p},
                                !.pc = IF cleanup.pending = {p} THEN "waiting" ELSE @]
  /\ UNCHANGED <<clientVars, bufferVars, recoveryVars, install, filesVars, startupVars, line, pollOutcome, lateVars>>

\* the handlers of the event loop run only between two calls of cleanup's map
BetweenHandlers == cleanup.pc # "looping"

(***************************************************************************)
(* cleanLogLine.  A line is the sequence of its characters; ESC is \x1b    *)
(* and CR is \r.                                                           *)
(***************************************************************************)
\* the characters of a raw line: escape, bracket, digit, two letters, carriage return
LineChars == {"ESC", "[", "0", "m", "A", "CR"}

\* [0-9;]
ParamChars == {"0", ";"}

\* [A-Za-z]
Letters == {"m", "A"}

\* what String.prototype.trim removes at both ends
Whitespace == {" ", "CR"}

\* the raw lines cleanLogLine is called with
RawLines == UNION {[1..n -> LineChars] : n \in 0..MaxLineLen}

\* the characters of s after a leading run of [0-9;]
RECURSIVE AfterParams(_)
AfterParams(s) ==
  IF s # <<>> /\ Head(s) \in ParamChars THEN AfterParams(Tail(s)) ELSE s

\* s.replace(/\x1b\[[0-9;]*F/g, '') for F one character of finals: each match,
\* found from left to right, is removed
RECURSIVE StripAnsi(_, _)
StripAnsi(s, finals) ==
  IF s = <<>> THEN <<>>
  ELSE IF Len(s) >= 2 /\ s[1] = "ESC" /\ s[2] = "["
       THEN LET rest == AfterParams(SubSeq(s, 3, Len(s)))
            IN IF rest # <<>> /\ Head(rest) \in finals
               THEN StripAnsi(Tail(rest), finals)
               ELSE <<Head(s)>> \o StripAnsi(Tail(s), finals)
       ELSE <<Head(s)>> \o StripAnsi(Tail(s), finals)

\* s.replace(/\r/g, '')
RemoveCR(s) == SelectSeq(s, LAMBDA ch : ch # "CR")

RECURSIVE TrimStart(_)
TrimStart(s) == IF s # <<>> /\ Head(s) \in Whitespace THEN TrimStart(Tail(s)) ELSE s

RECURSIVE TrimEnd(_)
TrimEnd(s) ==
  IF s # <<>> /\ s[Len(s)] \in Whitespace THEN TrimEnd(SubSeq(s, 1, Len(s) - 1)) ELSE s

\* s.trim()
Trim(s) == TrimEnd(TrimStart(s))

\* cleanLogLine(line): colour codes, other ANSI codes, carriage returns, trim;
\* an empty or one-character result is dropped
cleanLogLine(raw) ==
  LET cleaned == Trim(RemoveCR(StripAnsi(StripAnsi(raw, {"m"}), Letters)))
  IN IF Len(cleaned) < 2 THEN <<>> ELSE cleaned

NoLine == [pc |-> "idle", raw |-> <<>>, cleaned |-> <<>>, again |-> <<>>]

InitLine == line = NoLine

\* a line of process output arrives and is cleaned
CleanLine(raw) ==
  /\ line.pc = "idle"
  /\ line' = [line EXCEPT !.pc = "cleaned", !.raw = raw, !.cleaned = cleanLogLine(raw)]
  /\ UNCHANGED <<serverVars, clientVars, bufferVars, recoveryVars, install, filesVars,
                 startupVars, cleanup, pollOutcome, lateVars>>

\* the cleaned line is cleaned once more
CleanAgain ==
  /\ line.pc = "cleaned"
  /\ line' = [line EXCEPT !.pc = "again", !.again = cleanLogLine(line.cleaned)]
  /\ UNCHANGED <<serverVars, clientVars, bufferVars, recoveryVars, install, filesVars,
                 startupVars, cleanup, pollOutcome, lateVars>>

(***************************************************************************)
(* The 'data' handlers of a spawned process.  A stream is a sequence of    *)
(* bytes: the letter A, the line feed, and the two bytes C3 A9 of the      *)
(* UTF-8 form of U+00E9.  A chunk is decoded on its own.                   *)
(***************************************************************************)
StreamBytes == {"A", "LF", "C3", "A9"}

\* data.toString(): a complete C3 A9 is U+00E9; a lead byte without its
\* continuation byte, or a continuation byte alone, becomes U+FFFD
RECURSIVE toString(_)
toString(bytes) ==
  IF bytes = <<>> THEN <<>>
  ELSE IF Head(bytes) = "C3" /\ Len(bytes) >= 2 /\ bytes[2] = "A9"
       THEN <<"U+00E9">> \o toString(SubSeq(bytes, 3, Len(bytes)))
  ELSE IF Head(bytes) \in {"C3", "A9"} THEN <<"U+FFFD">> \o toString(Tail(bytes))
  ELSE <<Head(bytes)>> \o toString(Tail(bytes))

\* text.split('\n')
RECURSIVE Split(_)
Split(text) ==
  LET feeds == {i \in 1..Len(text) : text[i] = "LF"}
  IN IF feeds = {} THEN <<text>>
     ELSE <<SubSeq(text, 1, MinOf(feeds) - 1)>>
          \o Split(SubSeq(text, MinOf(feeds) + 1, Len(text)))

\* the stream before its first chunk: empty buffer, nothing published
NoStdio == [emitted |-> <<>>, buffer |-> <<>>, published |-> <<>>, closed |-> FALSE]

\* one run of a 'data' handler: the chunk is decoded and added to the buffer,
\* the buffer is split, the last piece is kept, and each other piece that
\* cleanLogLine does not empty is published
OnData(s, chunk) ==
  LET lines == Split(s.buffer \o toString(chunk))
      cleaned == [i \in 1..(Len(lines) - 1) |-> cleanLogLine(lines[i])]
  IN [s EXCEPT !.emitted = @ \o chunk,
               !.buffer = lines[Len(lines)],
               !.published = @ \o SelectSeq(cleaned, LAMBDA l : l # <<>>)]

\* a 'data' event of the stream
StdioData(chunk) ==
  /\ ~stdio.closed
  /\ Len(stdio.emitted) + Len(chunk) <= MaxStreamLen
  /\ stdio' = OnData(stdio, chunk)
  /\ UNCHANGED <<serverVars, clientVars, bufferVars, recoveryVars, install, filesVars,
                 startupVars, cleanup, line, pollOutcome, storage, link, createResult>>

\* the process closes: the 'close' handler leaves the buffers alone
StdioClose ==
  /\ ~stdio.closed
  /\ stdio' = [stdio EXCEPT !.closed = TRUE]
  /\ UNCHANGED <<serverVars, clientVars, bufferVars, recoveryVars, install, filesVars,
                 startupVars, cleanup, line, pollOutcome, storage, link, createResult>>

(***************************************************************************)
(* The connection effect of the hook, socket by socket.  A timer is named  *)
(* by the number of the setTimeout call that made it, a socket by the      *)
(* timer whose connect() made it.                                          *)
(***************************************************************************)
\* the effect has run: no socket yet, the timer of setTimeout(connect, 500)
NoLink ==
  [sockets |-> [k \in 1..MaxTimers |-> "none"], wsRef |-> NoConn, timers |-> {1},
   reconnectTimer |-> 1, made |-> 1, reconnectAttempts |-> 0, isCleanup |-> FALSE]

\* reconnectTimer = setTimeout(connect, delay)
setTimeout(l) ==
  [l EXCEPT !.made = @ + 1, !.timers = @ \cup {l.made + 1}, !.reconnectTimer = l.made + 1]

\* clearTimeout(reconnectTimer)
clearTimeout(l) == [l EXCEPT !.timers = @ \ {l.reconnectTimer}]

\* ws.onerror scheduling a reconnect as ws.onclose does
onerrorReconnects(l) == setTimeout(l)

\* ws.onerror: nothing
onerror(l) == l

\* a timer fires: connect()
LinkConnect(t) ==
  /\ t \in link.timers
  /\ LET fired == [link EXCEPT !.timers = @ \ {t}]
     IN IF link.isCleanup THEN link' = fired
        ELSE \E created \in BOOLEAN :
               IF created
               THEN link' = [fired EXCEPT !.sockets[t] = "connecting", !.wsRef = t]
               ELSE /\ link.made < MaxTimers
                    /\ link' = setTimeout([fired EXCEPT !.reconnectAttempts = @ + 1])
  /\ UNCHANGED <<serverVars, clientVars, bufferVars, recoveryVars, install, filesVars,
                 startupVars, cleanup, line, pollOutcome, storage, stdio, createResult>>

\* ws.onopen
LinkOpen(k) ==
  /\ link.sockets[k] = "connecting"
  /\ link' = [link EXCEPT !.sockets[k] = "open", !.reconnectAttempts = 0]
  /\ UNCHANGED <<serverVars, clientVars, bufferVars, recoveryVars, install, filesVars,
                 startupVars, cleanup, line, pollOutcome, storage, stdio, createResult>>

\* the connection attempt fails: the error event, before the close event
LinkError(k) ==
  /\ link.sockets[k] = "connecting"
  /\ link' = onerror([link EXCEPT !.sockets[k] = "failed"])
  /\ UNCHANGED <<serverVars, clientVars, bufferVars, recoveryVars, install, filesVars,
                 startupVars, cleanup, line, pollOutcome, storage, stdio, createResult>>

\* ws.onclose of a socket that failed, was closed by the server, or was
\* closed by the cleanup
LinkClose(k) ==
  /\ link.sockets[k] \in {"failed", "open", "closing"}
  /\ LET closed == [link EXCEPT !.sockets[k] = "closed"]
     IN IF link.isCleanup THEN link' = closed
        ELSE /\ link.made < MaxTimers
             /\ link' = setTimeout([closed EXCEPT !.reconnectAttempts = @ + 1])
  /\ UNCHANGED <<serverVars, clientVars, bufferVars, recoveryVars, install, filesVars,
                 startupVars, cleanup, line, pollOutcome, storage, stdio, createResult>>

\* the cleanup of the effect
LinkUnmount ==
  /\ ~link.isCleanup
  /\ LET ws == link.wsRef
         cleared == clearTimeout([link EXCEPT !.isCleanup = TRUE])
     IN link' = IF ws = NoConn THEN cleared
                ELSE [cleared EXCEPT !.wsRef = NoConn,
                                     !.sockets[ws] = IF @ \in {"open", "connecting"}
                                                     THEN "closing" ELSE @]
  /\ UNCHANGED <<serverVars, clientVars, bufferVars, recoveryVars, install, filesVars,
                 startupVars, cleanup, line, pollOutcome, storage, stdio, createResult>>

\* no status request has ended, nothing is stored, no stream, no socket
InitLate ==
  /\ pollOutcome = "none"
  /\ InitStorage
  /\ stdio = NoStdio
  /\ link = NoLink
  /\ createResult = NoCreate

(***************************************************************************)
(* Specifications.                                                         *)
(***************************************************************************)
\* the projects directory, the finished startup sweep, no cleanup, no line
InitTools ==
  /\ InitFiles
  /\ InitStartup
  /\ InitCleanup
  /\ InitLine
  /\ InitLate

\* the build server with its registry loaded, the client just mounted with
\* nothing saved in sessionStorage
Init ==
  /\ InitServer(ProjectIds)
  /\ InitClient(NoProject)
  /\ InitBuffer(0)
  /\ InitRecovery
  /\ InitTools

\* the lifecycle controller: start, stop and child-process events
Next ==
  \/ \E p \in RequestIds : StartDevServerCall(p)
  \/ \E t \in startTasks : StartDevServerSettled(t)
  \/ \E p \in RequestIds : StopDevServerCall(p)
  \/ \E i \in StopSlots : StopAfterGrace(i)
  \/ \E i \in StopSlots : StopFinish(i)
  \/ \E c \in ChildIds : ChildExit(c)
  \/ \E c \in ChildIds : ChildClose(c)

Spec == Init /\ [][Next]_vars

\* the session manager over the hub, with records published by the manager
NextSession ==
  \/ \E ws \in Conns : WsConnection(ws)
  \/ \E ws \in Conns, k \in HubKeys : WsSubscribe(ws, k)
  \/ \E ws \in Conns : WsClosing(ws)
  \/ \E ws \in Conns : WsClose(ws)
  \/ \E p \in ProjectIds : Publish(p, "info")

SpecSession == Init /\ [][NextSession]_vars

\* the hub alone, driven through its three operations
NextHub ==
  \/ \E p \in ProjectIds, cb \in Listeners : HubSubscribe(p, cb)
  \/ \E p \in ProjectIds, cb \in Listeners : HubUnsubscribe(p, cb)
  \/ \E p \in ProjectIds : Publish(p, "info")

SpecHub == Init /\ [][NextHub]_vars

(***************************************************************************)
(* Port allocation under start / stop / close interleavings.               *)
(***************************************************************************)
\* p has a ProcessHandle
Running(p) == processes[p] # NoChild

\* the dev-server processes of project p that are alive
LiveChildren(p) == {c \in ChildIds : child[c].state = "running" /\ child[c].projectId = p}

\* stop call i is suspended at one of its awaits
InFlight(i) == stopTasks[i].pc \in {"grace", "lsof"}

\* stop call i returns in this step
StopReturns(i) == stopTasks[i].pc # "done" /\ stopTasks'[i].pc = "done"

\* C1: no port is bound to two projects at the same time, and the number of
\* allocated ports never exceeds the size of the configured range.
C1_NoSharedPort ==
  /\ \A p, q \in ProjectIds :
       (p # q /\ Running(p) /\ Running(q)) => ports[p] # ports[q]
  /\ Cardinality(usedPorts) <= PORT_RANGE_END - PORT_RANGE_START + 1

\* C2: the allocator's used-port set equals the set of ports bound to the
\* projects that have a ProcessHandle.
C2_UsedPortsAreHandlePorts ==
  usedPorts = {ports[p] : p \in {q \in ProjectIds : Running(q)}}

\* C4: when stopDevServer(P) returns for a project that had a handle, P has no
\* ProcessHandle and the port P was bound to at the call is free, also when
\* sending a signal raised an error.
C4_StopFreesPortAndHandle ==
  [][\A i \in StopSlots :
       StopReturns(i) =>
         /\ processes'[stopTasks'[i].projectId] = NoChild
         /\ stopTasks'[i].port # NoPort
         /\ stopTasks'[i].port \in Ports \ usedPorts']_vars

\* C4 witness: a stop whose signal raised an error has returned, its port is
\* free and the project has no handle.
C4_Witness ==
  \E i \in StopSlots :
    /\ stopTasks[i].pc = "done"
    /\ stopTasks[i].threw
    /\ stopTasks[i].port \in FreePorts
    /\ ~Running(stopTasks[i].projectId)

\* C5: a stop or a failure (close) of one project's dev server never ends a
\* running dev server of a different project and never releases or rebinds a
\* port a different project is bound to.
C5_OtherProjectsUntouched ==
  [][\A q \in ProjectIds :
       /\ \A i \in StopSlots :
            (StopReturns(i) /\ stopTasks'[i].projectId # q) =>
              \A c \in LiveChildren(q) : child'[c].state = "running"
       /\ (Running(q) /\ ports[q] \in usedPorts /\ ports[q] \notin usedPorts') =>
            \/ \E i \in StopSlots : StopReturns(i) /\ stopTasks'[i].projectId = q
            \/ \E c \in ChildIds : /\ child[c].projectId = q
                                   /\ child[c].state = "exited"
                                   /\ child'[c].state = "closed"]_vars

\* C6: a start on a project that has a handle returns the existing binding and
\* spawns nothing, so a project never has more than one dev-server process.
C6_OneDevServerPerProject ==
  /\ \A p \in ProjectIds :
       Running(p) => StartDevServerEntry(p) = [kind |-> "existing", port |-> ports[p]]
  /\ \A p \in ProjectIds : Cardinality(LiveChildren(p)) <= 1

\* the part of C6 about the call itself: with a handle present (also during
\* the settle delay of the call that created it) the entry returns the binding
StartReturnsExistingBinding ==
  /\ \A p \in ProjectIds :
       Running(p) => /\ StartDevServerEntry(p) = [kind |-> "existing", port |-> ports[p]]
                     /\ ports[p] \in Ports
  /\ \A t \in startTasks :
       Running(t.projectId) => StartDevServerEntry(t.projectId).kind = "existing"

\* C7: a stopDevServer call on a project for which another stopDevServer call
\* is still in flight is a no-op: it takes no slot, sends no signal, publishes
\* nothing.
C7_SecondStopIsNoop ==
  [][\A i \in StopSlots :
       (stopTasks[i].pc = "idle" /\ stopTasks'[i].pc # "idle") =>
         ~\E j \in StopSlots \ {i} :
             InFlight(j) /\ stopTasks[j].projectId = stopTasks'[i].projectId]_vars

(***************************************************************************)
(* Fan-out hub.                                                            *)
(***************************************************************************)
\* listener cb is invoked in this step with exactly one more record, of project p
GetsOneRecordOf(cb, p) ==
  /\ Len(delivered'[cb]) = Len(delivered[cb]) + 1
  /\ SubSeq(delivered'[cb], 1, Len(delivered[cb])) = delivered[cb]
  /\ delivered'[cb][Len(delivered'[cb])].projectId = p

\* listener cb is invoked in this step with a record of project p
GetsRecordOf(cb, p) ==
  \E n \in (Len(delivered[cb]) + 1)..Len(delivered'[cb]) : delivered'[cb][n].projectId = p

\* C3: publish(record) invokes each listener subscribed to record.projectId at
\* the moment of the publish exactly once and no other listener; a step that
\* is not a publish (a later subscribe) invokes nobody.
C3_PublishExactlyOnce ==
  [][/\ now' # now =>
          \E p \in ProjectIds : \A cb \in Callbacks :
             IF cb \in logSubscriptions[p] THEN GetsOneRecordOf(cb, p)
             ELSE delivered'[cb] = delivered[cb]
     /\ now' = now => delivered' = delivered]_vars

\* C3 witness: one record of p was published; a listener of p has it once, a
\* listener subscribed only to another project q has nothing.
C3_Witness ==
  \E cb1, cb2 \in Listeners, p, q \in ProjectIds :
    /\ p # q /\ now = 1
    /\ Len(delivered[cb1]) = 1 /\ delivered[cb1][1].projectId = p
    /\ cb1 \in logSubscriptions[p]
    /\ cb2 \in logSubscriptions[q] /\ cb2 \notin logSubscriptions[p]
    /\ delivered[cb2] = <<>>

Registered(ws) ==
  {cb \in Callbacks : cbOwner[cb] = ws /\ \E k \in HubKeys : cb \in logSubscriptions[k]}

\* C8: each connection has at most one listener registered in the hub, and it
\* is the one of its current binding (after a switch from A to B: B only).
C8_OneListenerPerConnection ==
  \A ws \in Conns :
    /\ Cardinality(Registered(ws)) <= 1
    /\ \A cb \in Registered(ws) :
         /\ cb = wsClients[ws].callback
         /\ cb \in logSubscriptions[wsClients[ws].projectId]

\* C9: after a connection has closed the hub holds no listener of it.
C9_NoListenerAfterClose ==
  \A ws \in Conns : wsState[ws] = "closed" => Registered(ws) = {}

\* the part of C9 about the wire: nothing is sent on a connection that has
\* left the OPEN state
NothingSentAfterClose ==
  [][\A ws \in Conns : wsState[ws] \in {"closing", "closed"} => sent'[ws] = sent[ws]]_vars

(***************************************************************************)
(* Further specifications.                                                 *)
(***************************************************************************)
\* the client hook from its first render, with any project saved in
\* sessionStorage or none
InitClientSpec ==
  /\ InitServer(ProjectIds)
  /\ \E saved \in ClientProjects \cup {NoProject} : InitClient(saved)
  /\ InitBuffer(0)
  /\ InitRecovery
  /\ InitTools

NextClient ==
  \/ \E project \in ClientProjects \cup {NoProject} : ClientSetActive(project)
  \/ ClientConnect
  \/ ClientOpen
  \/ ClientClose
  \/ ClientUnmount
  \/ PollTick
  \/ \E id \in ProjectIds, answer \in Answers : PollResponse(id, answer)
  \/ \E id \in HubKeys, answer \in Answers : FetchResponse(id, answer)

SpecClient == InitClientSpec /\ [][NextClient]_vars

\* the connection effect of the hook alone: connect, open, close, unmount
NextConnection ==
  \/ ClientConnect
  \/ ClientOpen
  \/ ClientClose
  \/ ClientUnmount

SpecConnection == InitClientSpec /\ [][NextConnection]_vars

\* the activeProject state and the effects on it, the socket staying unopened
NextPolling ==
  \/ \E project \in ClientProjects \cup {NoProject} : ClientSetActive(project)
  \/ ClientUnmount
  \/ PollTick
  \/ \E id \in ProjectIds, answer \in Answers : PollResponse(id, answer)
  \/ \E id \in HubKeys, answer \in Answers : FetchResponse(id, answer)

SpecPolling == InitClientSpec /\ [][NextPolling]_vars

\* the status poll with the ways its requests end
NextStatusPoll ==
  \/ \E project \in ClientProjects \cup {NoProject} : ClientSetActive(project)
  \/ ClientUnmount
  \/ PollTick
  \/ \E id \in ProjectIds, outcome \in HttpOutcomes : PollSettles(id, outcome)

SpecStatusPoll == InitClientSpec /\ [][NextStatusPoll]_vars

\* the numbers of records sessionStorage holds at the first render
SavedLengths == {0, MAX_LOGS - 1, MAX_LOGS + 1}

\* the log buffer of the client from its first render
InitBufferSpec ==
  /\ InitServer(ProjectIds)
  /\ InitClient(NoProject)
  /\ \E n \in SavedLengths : InitBuffer(n)
  /\ InitRecovery
  /\ InitTools

NextBuffer ==
  \/ ClientConnect
  \/ ClientOpen
  \/ \E type \in {"log", "connected", "subscribed"} : ClientMessage(type)

SpecBuffer == InitBufferSpec /\ [][NextBuffer]_vars

\* the log buffer with its mirror in sessionStorage
NextStorage ==
  \/ ClientConnect
  \/ ClientOpen
  \/ \E type \in {"log", "connected"}, first \in StorageOutcomes, second \in StorageOutcomes :
       ClientMessageSaved(type, first, second)

SpecStorage == InitBufferSpec /\ [][NextStorage]_vars

\* a build server with an empty projects directory
InitRecoverySpec ==
  /\ InitServer({})
  /\ InitClient(NoProject)
  /\ InitBuffer(0)
  /\ InitRecovery
  /\ InitTools

NextRecovery ==
  \/ \E name \in Names, id \in generateId : CreateProject(name, id)
  \/ Restart

SpecRecovery == InitRecoverySpec /\ [][NextRecovery]_vars

\* the connection effect with every socket and timer it makes
NextLink ==
  \/ \E t \in 1..MaxTimers : LinkConnect(t)
  \/ \E k \in 1..MaxTimers : LinkOpen(k)
  \/ \E k \in 1..MaxTimers : LinkError(k)
  \/ \E k \in 1..MaxTimers : LinkClose(k)
  \/ LinkUnmount

SpecLink == Init /\ [][NextLink]_vars

\* one stream of a process, cut into chunks in every way
NextStdio ==
  \/ \E chunk \in UNION {[1..n -> StreamBytes] : n \in 1..MaxStreamLen} : StdioData(chunk)
  \/ StdioClose

SpecStdio == Init /\ [][NextStdio]_vars

\* createProject for any framework, and restarts
NextCreate ==
  \/ \E name \in Names, id \in generateId, framework \in Frameworks :
       CreateProjectCall(name, id, framework)
  \/ Restart

SpecCreate == InitRecoverySpec /\ [][NextCreate]_vars

NextInstall ==
  \/ \E p \in RequestIds : InstallDependenciesCall(p)
  \/ \E stream \in {"stdout", "stderr"}, lines \in 0..1, level \in Levels :
       InstallData(stream, lines, level)
  \/ InstallError
  \/ \E code \in ExitCodes \cup {SpawnErrorCode} : InstallClose(code)

SpecInstall == Init /\ [][NextInstall]_vars

\* writeFile calls, with listeners subscribed to the projects' streams
NextFiles ==
  \/ \E p \in ProjectIds, cb \in Listeners : HubSubscribe(p, cb)
  \/ \E p \in RequestIds, rel \in RelPaths : WriteFileCall(p, rel)

SpecFiles == Init /\ [][NextFiles]_vars

\* the server from the call of init(): any processes of a previous run still
\* listen, the sweep is at its first port, the registry is empty
InitStartupSpec ==
  /\ InitServer({})
  /\ InitClient(NoProject)
  /\ InitBuffer(0)
  /\ InitRecovery
  /\ InitFiles
  /\ InitCleanup
  /\ InitLine
  /\ InitLate
  /\ strays \in SUBSET StrayPorts
  /\ sweep = PORT_RANGE_START

NextStartup ==
  \/ SweepPort
  \/ LoadProjectsFromDisk
  \/ \E p \in RequestIds : StartDevServerCall(p)
  \/ \E t \in startTasks : StartDevServerSettled(t)
  \/ \E c \in ChildIds : ChildExit(c)
  \/ \E c \in ChildIds : ChildClose(c)

SpecStartup == InitStartupSpec /\ [][NextStartup]_vars

\* the server from the call of init(), taking createProject and
\* startDevServer requests while init() runs
NextInit ==
  \/ SweepPort
  \/ LoadProjectsFromDisk
  \/ \E p \in ProjectIds : CreateProjectRequest(p)
  \/ \E p \in RequestIds : StartDevServerCall(p)
  \/ \E t \in startTasks : StartDevServerSettled(t)
  \/ \E c \in ChildIds : ChildExit(c)
  \/ \E c \in ChildIds : ChildClose(c)

SpecInit == InitStartupSpec /\ [][NextInit]_vars

\* the allocator under starts and process exits, spawn() failing or not
NextPorts ==
  \/ \E p \in RequestIds : StartDevServerCall(p)
  \/ \E p \in ProjectIds : StartDevServerSpawnThrows(p)
  \/ \E t \in startTasks : StartDevServerSettled(t)
  \/ \E c \in ChildIds : ChildExit(c)
  \/ \E c \in ChildIds : ChildClose(c)

SpecPorts == Init /\ [][NextPorts]_vars

\* starts and deletions
NextDelete ==
  \/ \E p \in RequestIds : StartDevServerCall(p)
  \/ \E t \in startTasks : StartDevServerSettled(t)
  \/ \E p \in RequestIds : DeleteProject(p)
  \/ \E c \in ChildIds : ChildExit(c)
  \/ \E c \in ChildIds : ChildClose(c)

SpecDelete == Init /\ [][NextDelete]_vars

\* shutdown: one cleanup() call among start requests and process events
NextCleanup ==
  \/ BetweenHandlers /\ \E p \in RequestIds : StartDevServerCall(p)
  \/ BetweenHandlers /\ \E t \in startTasks : StartDevServerSettled(t)
  \/ BetweenHandlers /\ \E i \in StopSlots : StopAfterGrace(i)
  \/ BetweenHandlers /\ \E i \in StopSlots : StopFinish(i)
  \/ BetweenHandlers /\ \E c \in ChildIds : ChildExit(c)
  \/ BetweenHandlers /\ \E c \in ChildIds : ChildClose(c)
  \/ CleanupCall
  \/ \E p \in ProjectIds : CleanupStop(p)

SpecCleanup == Init /\ [][NextCleanup]_vars

\* cleanLogLine applied to a raw line and to its own result
NextClean ==
  \/ \E raw \in RawLines : CleanLine(raw)
  \/ CleanAgain

SpecClean == Init /\ [][NextClean]_vars

(***************************************************************************)
(* Client synchronizer: subscribe on open, backoff, polling, log buffer.   *)
(***************************************************************************)
\* the socket of the client opens in this step
Opens == clientWs = "connecting" /\ clientWs' = "open"

\* the socket of the mounted client closes in this step
Closes == clientWs # "closed" /\ clientWs' = "closed" /\ ~isCleanup

\* a connection attempt fails in this step: the socket closes without having
\* opened, or new WebSocket() throws
AttemptFails ==
  \/ clientWs = "connecting" /\ clientWs' = "closed" /\ ~isCleanup
  \/ clientWs' = clientWs /\ reconnectAttempts' = reconnectAttempts + 1

\* C11: whenever the client's connection opens while a project is active, a
\* subscribe request for that project is sent on the new connection.
C11_SubscribeOnOpen ==
  [][(Opens /\ activeProject # NoProject) => activeProject.id \in clientSubscribes']_vars

\* C12: at every close the reconnect is scheduled after
\* min(baseDelay * 2^attempt, capDelay) for the value attempt has at that close,
\* then attempt is incremented; only a successful open resets attempt to zero.
C12_BackoffAtClose ==
  [][/\ Closes => /\ reconnectTimer' = Delay(reconnectAttempts)
                  /\ reconnectAttempts' = reconnectAttempts + 1
     /\ (reconnectAttempts # 0 /\ reconnectAttempts' = 0) => Opens]_vars

\* the delays of C13, in ms, for attempts 0..4
BackoffDelays == <<1000, 2000, 4000, 8000, 10000>>

\* C13: a failed connection attempt made with the attempt counter at 0..4 is
\* retried after 1, 2, 4, 8, 10 seconds, and with a larger counter after
\* exactly the 10 s cap.
C13_BackoffSequence ==
  [][AttemptFails =>
       reconnectTimer' = IF reconnectAttempts + 1 <= Len(BackoffDelays)
                         THEN BackoffDelays[reconnectAttempts + 1]
                         ELSE maxReconnectDelay]_vars

\* C13 witness: the attempts 0..5 have failed in a row since the mount, the
\* last one being retried after the cap.
C13_Witness ==
  /\ reconnectAttempts = MaxAttempts
  /\ MaxAttempts > Len(BackoffDelays)
  /\ reconnectTimer = maxReconnectDelay
  /\ clientWs = "closed"

\* C14: the poll interval is armed exactly while the active project's local
\* status is non-terminal, for that project; a poll is issued only for the
\* active project and only while its status is neither ready nor error; after
\* ready, error or a not-found answer the interval is off.
C14_PollsOnlyNonTerminal ==
  [][/\ \A id \in ProjectIds :
          pollsInFlight'[id] > pollsInFlight[id] =>
            /\ activeProject # NoProject
            /\ activeProject.id = id
            /\ activeProject.status \notin {"ready", "error"}
     /\ ~isCleanup' =>
          pollInterval' = IF activeProject' # NoProject
                             /\ activeProject'.status \notin {"ready", "error"}
                          THEN activeProject'.id
                          ELSE EmptyId]_vars

\* C14 witness: a poll made the project ready and the interval is off, while
\* a second poll issued before that has no response yet.
C14_Witness ==
  /\ activeProject # NoProject
  /\ activeProject.status = "ready"
  /\ pollInterval = EmptyId
  /\ pollsInFlight[activeProject.id] > 0
  /\ ~isCleanup

\* C15: the log buffer holds at most MAX_LOGS records, and they are the most
\* recent ones in the order of arrival.
C15_BufferKeepsNewest ==
  /\ Len(logs) <= MAX_LOGS
  /\ logs = [i \in 1..Min(arrived, MAX_LOGS) |-> arrived - Min(arrived, MAX_LOGS) + i]

\* C15 witness: two records more than the buffer holds have arrived; the two
\* oldest are gone and the newest is last.
C15_Witness ==
  /\ arrived = MAX_LOGS + 2
  /\ Len(logs) = MAX_LOGS
  /\ logs[1] = 3
  /\ logs[MAX_LOGS] = arrived
  /\ clientWs = "open"

(***************************************************************************)
(* Registry: identity across restarts, status, spawn failure, install.     *)
(***************************************************************************)
\* C16: after a restart every id createProject returned is still the id of a
\* project of the registry, so getStatus with it finds the project.
C16_IdStableAcrossRestart ==
  restarts > 0 => \A id \in issued : Found(id)

\* C17: getStatus(P) reports running exactly when P has a ProcessHandle,
\* status ready exactly when P is running with a bound port and creating
\* otherwise, and the url of the bound port, absent when no port is bound.
C17_StatusReflectsHandle ==
  \A p \in ProjectIds :
    LET st == getProjectStatus(p)
    IN /\ st.running <=> Running(p)
       /\ st.status = "ready" <=> (Running(p) /\ ports[p] \in Ports)
       /\ st.status \in {"ready", "creating"}
       /\ ports[p] \in Ports => st.url = Url(ports[p])
       /\ ports[p] = NoPort => st.url = NoUrl

\* C17 witness: one project is running on a port and reported ready with its
\* url, another has no handle and no port and is reported creating with no url.
C17_Witness ==
  \E p, q \in ProjectIds :
    /\ Running(p) /\ ports[p] \in Ports
    /\ getProjectStatus(p).status = "ready"
    /\ getProjectStatus(p).url = Url(ports[p])
    /\ ~Running(q) /\ ports[q] = NoPort
    /\ getProjectStatus(q).status = "creating"
    /\ getProjectStatus(q).url = NoUrl

\* C18: a startDevServer call whose dev-server process could not be spawned
\* does not return a binding, and a project without a ProcessHandle holds no
\* allocated port.
C18_SpawnFailureReported ==
  [][/\ \A t \in startTasks \ startTasks' : ~t.spawnFailed
     /\ \A p \in ProjectIds :
          processes'[p] = NoChild => ports'[p] \notin usedPorts']_vars

\* C19: the install resolves with {success: true} exactly when the process
\* exits with code 0, its last record then being success-level; for every
\* other exit it rejects and its last record is error-level.
C19_InstallOutcome ==
  install.pc = "done" =>
    /\ install.result.kind = "resolved" <=> install.code = 0
    /\ install.code = 0 => /\ install.result.success
                           /\ install.records[Len(install.records)] = "success"
    /\ install.code # 0 => /\ install.result.kind = "rejected"
                           /\ install.records[Len(install.records)] = "error"

\* C19 witness: an install that wrote an error-level line to stderr and then
\* exited with code 0 has resolved, its last record being success-level.
C19_Witness ==
  /\ install.pc = "done"
  /\ install.code = 0
  /\ install.result.kind = "resolved"
  /\ \E i \in 1..Len(install.records) : install.records[i] = "error"
  /\ install.records[Len(install.records)] = "success"

\* C20: when the install process exits with a non-zero code, what the caller
\* gets carries the output captured from the process.
C20_FailureCarriesOutput ==
  (install.pc = "done" /\ install.code # 0) =>
    LET response == InstallResponse(install.result)
    IN /\ "output" \in DOMAIN response.body
       /\ response.body.output = install.output

(***************************************************************************)
(* Failures, deletion, allocation, startup, writeFile, cleanup.            *)
(***************************************************************************)
\* C21: a failure that an operation returns to its caller for a project of
\* the registry is also delivered, as an error-level record of that project,
\* to every listener subscribed to the project.
C21_FailuresPublished ==
  [][(/\ writes' # writes
      /\ writeResult'.projectId \in projects
      /\ writeResult'.kind \in {"PathEscape", "IOError"}) =>
       \A cb \in Subscribers(writeResult'.projectId) :
         \E n \in (Len(delivered[cb]) + 1)..Len(delivered'[cb]) :
           /\ delivered'[cb][n].level = "error"
           /\ delivered'[cb][n].projectId = writeResult'.projectId]_vars

C23_LowestFreePort ==
  [][\A port \in usedPorts' \ usedPorts :
       /\ port \in Ports
       /\ \A q \in Ports : q < port => q \in usedPorts
       /\ usedPorts' = usedPorts \cup {port}]_vars

\* C23 witness: the first port of the range is bound to a dev server spawned
\* after the dev server on a higher port: it was released and handed out again.
C23_Witness ==
  \E p, q \in ProjectIds :
    /\ Running(p) /\ Running(q)
    /\ ports[p] = PORT_RANGE_START
    /\ ports[q] > ports[p]
    /\ processes[p] > processes[q]
    /\ usedPorts = {ports[p], ports[q]}

\* C24: when every port of the range is allocated, startDevServer on a
\* project without a handle fails with PortExhausted, and such a call leaves
\* the allocated set, the port bindings and the handles as they were.
C24_ExhaustionChangesNothing ==
  /\ [](\A p \in projects :
          (Ports \subseteq usedPorts /\ ~Running(p)) =>
            StartDevServerEntry(p) = [kind |-> "PortExhausted", port |-> NoPort])
  /\ [][\A p \in projects :
          (StartDevServerEntry(p).kind = "PortExhausted" /\ StartDevServerCall(p)) =>
            UNCHANGED <<usedPorts, ports, processes>>]_vars

\* C24 witness: every port is allocated, a project has no handle, and a start
\* on it fails with PortExhausted.
C24_Witness ==
  /\ Ports \subseteq usedPorts
  /\ \E p \in projects : ~Running(p) /\ StartDevServerEntry(p).kind = "PortExhausted"

\* C25: when the allocator has handed out a port, no process of a previous
\* run listens on any port of the managed range any more.
C25_StraysKilledBeforeAllocation ==
  usedPorts # {} => strays \cap ManagedPorts = {}

\* C26: a writeFile whose path resolves to a location outside the project's
\* root directory is rejected with PathEscape and leaves the filesystem as it was.
C26_PathEscapeRejected ==
  [][(writes' # writes /\ writeResult'.projectId \in projects) =>
       LET root == projectPath(writeResult'.projectId)
           fullPath == resolve(root, writeResult'.path)
       IN ~Inside(fullPath, root) => /\ writeResult'.kind = "PathEscape"
                                     /\ fs' = fs]_vars

\* C27: when cleanup() completes (its last stopDevServer returns), no project
\* that had a handle at the call has one, and the ports they were bound to
\* are free.
C27_CleanupLeavesNothing ==
  [][(/\ cleanup'.pc = "waiting"
      /\ \A i \in StopSlots : stopTasks'[i].pc \notin {"grace", "lsof"}
      /\ cleanup.pc = "looping" \/ ~NoStopInFlight) =>
       /\ \A p \in cleanup'.keys : processes'[p] = NoChild
       /\ \A i \in StopSlots :
            stopTasks'[i].port # NoPort => stopTasks'[i].port \notin usedPorts']_vars

(***************************************************************************)
(* Session protocol, line cleaning, termination.                           *)
(***************************************************************************)
\* C28: {connected} is the first message on every connection and is sent
\* once; a subscribe request is answered with exactly one {subscribed} that
\* carries the requested project id, the connection's listener being in the
\* hub's set of that project; no other step sends a {subscribed}.
C28_ConnectedAndAcknowledged ==
  /\ [](\A ws \in Conns :
          wsState[ws] # "none" =>
            /\ sent[ws] # <<>>
            /\ sent[ws][1].type = "connected"
            /\ \A n \in 2..Len(sent[ws]) : sent[ws][n].type # "connected")
  /\ [][\A ws \in Conns :
          LET new == SubSeq(sent'[ws], Len(sent[ws]) + 1, Len(sent'[ws]))
              acks == SelectSeq(new, LAMBDA m : m.type = "subscribed")
          IN IF wsClients'[ws].callback # NoCb
                /\ wsClients'[ws].callback # wsClients[ws].callback
             THEN /\ acks = <<[type |-> "subscribed",
                               projectId |-> wsClients'[ws].projectId]>>
                  /\ wsClients'[ws].callback
                       \in logSubscriptions'[wsClients'[ws].projectId]
             ELSE acks = <<>>]_vars

\* C28 witness: a connection got {connected}, the acknowledgment of a first
\* project, a log record of it, and the acknowledgment of a second project.
C28_Witness ==
  \E ws \in Conns, p, q \in ProjectIds :
    /\ p # q
    /\ Len(sent[ws]) = 4
    /\ sent[ws][1].type = "connected"
    /\ sent[ws][2] = [type |-> "subscribed", projectId |-> p]
    /\ sent[ws][3].type = "log"
    /\ sent[ws][4] = [type |-> "subscribed", projectId |-> q]

\* C29: cleaning a cleaned line changes nothing: clean(clean(x)) = clean(x).
C29_CleanIdempotent ==
  line.pc = "again" => line.again = line.cleaned

\* C30: at the end of the grace period a tracked process that has not exited
\* is sent the forceful kill (the half of the claim that shows in the
\* process: it ends, unless sending the signal raised an error).
C30_KillIfStillRunning ==
  [][\A i \in StopSlots :
       (stopTasks[i].pc = "grace" /\ stopTasks'[i].pc # "grace") =>
         (child[stopTasks[i].child].state = "running" =>
            \/ child'[stopTasks[i].child].state = "exited"
            \/ stopTasks'[i].threw)]_vars

(***************************************************************************)
(* Tracking of live dev servers, the report of a start.                    *)
(***************************************************************************)
\* C33: every dev server spawned by startDevServer that is still running is
\* the ProcessHandle of its project: processes[projectId] is that process.
C33_LiveServerTracked ==
  \A c \in ChildIds :
    child[c].state = "running" => processes[child[c].projectId] = c

\* C34: when startDevServer returns {port, url} and publishes 'Dev server
\* running', the project has a ProcessHandle and is bound to that port.
C34_StartedMeansHandle ==
  [][\A t \in startTasks :
       t \notin startTasks' => /\ processes[t.projectId] # NoChild
                               /\ ports[t.projectId] = t.port]_vars

\* C35: the sweep of init() ends no dev server that this run has spawned.
C35_SweepSparesThisRun ==
  [][sweep' # sweep =>
       \A c \in ChildIds : child[c].state = "running" => child'[c].state = "running"]_vars

(***************************************************************************)
(* Status poll of the client.                                              *)
(***************************************************************************)
\* C36: the response of a status request for a project that is no longer
\* the active one leaves the active project as it is.
C36_StalePollIgnored ==
  [][\A id \in ProjectIds :
       (/\ pollsInFlight'[id] < pollsInFlight[id]
        /\ activeProject # NoProject
        /\ activeProject.id # id) => activeProject' = activeProject]_vars

\* C37: a status request of the poll that fails for another reason than not
\* found (server error, no network) leaves the active project and the poll
\* as they are.
C37_OnlyNotFoundClears ==
  [][\A id \in ProjectIds :
       (/\ pollsInFlight'[id] < pollsInFlight[id]
        /\ pollOutcome' \in {"500", "network"}) =>
         /\ activeProject' = activeProject
         /\ pollInterval' = pollInterval]_vars

(***************************************************************************)
(* createProject failing.                                                  *)
(***************************************************************************)
\* C39: after a createProject call that failed for want of a template, the
\* registry holds no project with the id the call generated.
C39_FailedCreateLeavesNothing ==
  createResult.kind = "TemplateMissing" => createResult.id \notin projects

(***************************************************************************)
(* Records of a process stream.                                            *)
(***************************************************************************)
\* C31: the records published from a stream are the cleaned lines of the
\* stream in their order, whatever chunks the stream arrived in: they are
\* the records the handler publishes when the same bytes come as one chunk.
C31_ChunkingInvisible ==
  stdio.emitted # <<>> => stdio.published = OnData(NoStdio, stdio.emitted).published

\* C38: once the process has closed, no line that cleans to a non-empty
\* record is left unpublished in the handler's buffer.
C38_LastLinePublished ==
  stdio.closed => cleanLogLine(stdio.buffer) = <<>>

(***************************************************************************)
(* The persisted mirror of the logs.                                       *)
(***************************************************************************)
\* C32: when the write of the logs to sessionStorage fails for the quota,
\* the stored logs are removed and nothing else is, the write is tried a
\* second time and no more, sessionStorage then holds the new logs or none,
\* and the logs in memory are the ones the message made.
C32_QuotaDropsLogsAndRetriesOnce ==
  [][(arrived' # arrived /\ storage'.first = "QuotaExceededError") =>
       /\ storage'.calls = 2
       /\ \A k \in StorageKeys \ {"logs"} : storage'.items[k] = storage.items[k]
       /\ storage'.items["logs"] \in {<<>>, <<Len(logs'), arrived'>>}
       /\ logs' = SliceLast(Append(logs, arrived'))]_vars

\* a write of the logs has failed twice for the quota: no logs are stored,
\* the projects still are
C32_Witness ==
  /\ storage.first = "QuotaExceededError"
  /\ storage.calls = 2
  /\ storage.items["logs"] = <<>>
  /\ storage.items["projects"] # <<>>
  /\ logs # <<>>

(***************************************************************************)
(* The single connection of the client.                                    *)
(***************************************************************************)
\* C40: at most one socket of the client is connecting or open and at most
\* one reconnect timer is pending, at any time; once the cleanup of the
\* effect has run no socket is created.
C40_SingleConnection ==
  /\ [](/\ Cardinality({k \in 1..MaxTimers : link.sockets[k] \in {"connecting", "open"}}) <= 1
        /\ Cardinality(link.timers) <= 1)
  /\ [][link.isCleanup =>
          \A k \in 1..MaxTimers : link.sockets[k] = "none" => link'.sockets[k] = "none"]_vars

\* the cleanup has run after a reconnect: the second socket was made, it is
\* closing or closed, and no timer is pending
C40_Witness ==
  /\ link.isCleanup
  /\ link.sockets[1] = "closed"
  /\ link.sockets[2] \in {"closing", "closed"}
  /\ link.timers = {}

====
